---- MODULE Spec2Model ----
(***************************************************************************)
(* A model of the vault_ressources persistence layer: the path-to-file     *)
(* resolution (path.rs), the metadata sidecar (meta.rs), Ressource::load   *)
(* and Ressource::new (ressource.rs), and the built-in FolderRessource     *)
(* (folder_ressource.rs), running against a POSIX-like filesystem.         *)
(*                                                                         *)
(* Strings are sequences of one-character strings, so that formatting,     *)
(* extension handling and suffix stripping are computed, not assumed.      *)
(* A PathBuf is a sequence of components, each component a string.         *)
(***************************************************************************)
EXTENDS Integers, Sequences, FiniteSets, TLC

VARIABLES fs, pc, call, last, ncalls, serial

vars == <<fs, pc, call, last, ncalls, serial>>

-----------------------------------------------------------------------------
(* Bounds of the model *)

\* longest flat logical path a caller passes
MaxDepth == 2

\* number of calls (load or create) issued in one behaviour
MaxCalls == 2

\* longest component vector of a path built by the path operations
MaxPathLen == 3

\* most entries of a directory that is listed
MaxEntries == 3

-----------------------------------------------------------------------------
(* String literals of the program *)

\* "{id}.data" in RessourcePath::resolve
DotData == <<".", "d", "a", "t", "a">>

\* the argument of add_extension in RessourcePath::metadata_path
MetaJsonExt == <<".", "m", "e", "t", "a", ".", "j", "s", "o", "n">>

\* the suffix FolderRessource::read strips
MetaJsonSuffix == <<".", "m", "e", "t", "a", ".", "j", "s", "o", "n">>

\* the first argument of add_extension in MetaRessource::data_path
DataExt == <<"d", "a", "t", "a">>

\* FolderRessource::id()
FolderId == <<"core/folder">>

\* FolderRessource::data_extension()
FolderDataExtension == <<>>

\* Text, the payload type of the specification's scenario: its id, its
\* extension
TextId == <<"test/text">>

TextDataExtension == <<"t", "x", "t">>

Types == {"Folder", "Text"}

TypeId(T) == IF T = "Folder" THEN FolderId ELSE TextId

TypeDataExtension(T) == IF T = "Folder" THEN FolderDataExtension ELSE TextDataExtension

-----------------------------------------------------------------------------
(* std::path::PathBuf *)

\* PathBuf::push(Component::Normal(name))
PathPush(p, name) == Append(p, name)

\* PathBuf::add_extension(ext): nothing without a file name or with an empty
\* extension; otherwise "." and the extension are appended to the file name
AddExtension(p, ext) ==
    IF Len(p) = 0 \/ ext = <<>>
    THEN p
    ELSE [p EXCEPT ![Len(p)] = @ \o <<".">> \o ext]

\* Path::parent
PathParent(p) == SubSeq(p, 1, Len(p) - 1)

-----------------------------------------------------------------------------
(* path.rs *)

\* RessourcePathComponent::Ressource(id)
CompRessource(id) == [kind |-> "Ressource", id |-> id, path |-> [path |-> <<>>, root |-> <<>>]]

\* RessourcePathComponent::Path(path)
CompPath(path) == [kind |-> "Path", id |-> <<>>, path |-> path]

\* the root directory the caller supplies
Root == << <<"R">> >>

\* RessourcePath::from_vec
FromVec(root, path) == [path |-> path, root |-> root]

RECURSIVE ResolveComponentsSeq(_)
\* RessourcePath::resolve_components with RessourcePathComponent::resolve
ResolveComponentsSeq(comps) ==
    IF comps = <<>>
    THEN <<>>
    ELSE LET c == Head(comps)
             own == IF c.kind = "Ressource"
                    THEN <<c.id>>
                    ELSE ResolveComponentsSeq(c.path.path)
         IN own \o ResolveComponentsSeq(Tail(comps))

ResolveComponents(rp) == ResolveComponentsSeq(rp.path)

RECURSIVE PushAll(_, _)
PushAll(res, ids) ==
    IF ids = <<>>
    THEN res
    ELSE PushAll(PathPush(res, Head(ids) \o DotData), Tail(ids))

\* RessourcePath::resolve
Resolve(rp) == PushAll(rp.root, ResolveComponents(rp))

\* RessourcePath::metadata_path
MetadataPath(rp) == AddExtension(Resolve(rp), MetaJsonExt)

\* RessourcePath::push
Push(rp, component) == [rp EXCEPT !.path = Append(@, component)]

\* RessourcePath::append
AppendComponents(rp, components) == [rp EXCEPT !.path = @ \o components]

\* RessourcePath::append_id
AppendId(rp, ids) == AppendComponents(rp, [i \in 1..Len(ids) |-> CompRessource(ids[i])])

\* Up with the bug of answering the last component without removing it
UpPeeks(rp) ==
    IF rp.path = <<>>
    THEN [some |-> FALSE, component |-> CompRessource(<<>>), rest |-> rp]
    ELSE [some |-> TRUE, component |-> rp.path[Len(rp.path)], rest |-> rp]

\* Up with the bug of never answering none: the root yields an empty id
UpNeverNone(rp) ==
    IF rp.path = <<>>
    THEN [some |-> TRUE, component |-> [kind |-> "Ressource", id |-> <<>>,
                                        path |-> [path |-> <<>>, root |-> <<>>]],
          rest |-> rp]
    ELSE [some |-> TRUE,
          component |-> rp.path[Len(rp.path)],
          rest |-> [rp EXCEPT !.path = SubSeq(@, 1, Len(@) - 1)]]

\* RessourcePath::up: the removed component (or none) and the path left
Up(rp) ==
    IF rp.path = <<>>
    THEN [some |-> FALSE, component |-> CompRessource(<<>>), rest |-> rp]
    ELSE [some |-> TRUE,
          component |-> rp.path[Len(rp.path)],
          rest |-> [rp EXCEPT !.path = SubSeq(@, 1, Len(@) - 1)]]

-----------------------------------------------------------------------------
(* The filesystem: a function from the physical paths that exist to what   *)
(* is there, a directory or a file with its content. The content of a file *)
(* is a sequence of strings. The empty physical path is the directory      *)
(* above the root and always exists.                                       *)

DirEntry == [kind |-> "dir", content |-> <<>>]

FileEntry(content) == [kind |-> "file", content |-> content]

IsDir(f, p) == p = <<>> \/ (p \in DOMAIN f /\ f[p].kind = "dir")

IsFile(f, p) == p \in DOMAIN f /\ f[p].kind = "file"

Without(f, p) == [q \in DOMAIN f \ {p} |-> f[q]]

\* tokio::fs::read_to_string; fault is an I/O error of the environment
ReadToString(f, p, fault) ==
    IF ~fault /\ IsFile(f, p)
    THEN [ok |-> TRUE, content |-> f[p].content]
    ELSE [ok |-> FALSE, content |-> <<>>]

\* whether creating or truncating the file p can succeed
CanWrite(f, p) == Len(p) > 0 /\ IsDir(f, PathParent(p)) /\ ~IsDir(f, p)

\* what a write of p can do: succeed, fail leaving the file as it was, or
\* fail after the file was created or truncated
WriteOutcomes(f, p) == IF CanWrite(f, p) THEN {"ok", "fail", "partial"} ELSE {"fail"}

\* tokio::fs::write
FsWrite(f, p, content, outcome) ==
    IF outcome = "ok"
    THEN [ok |-> TRUE, fs |-> (p :> FileEntry(content)) @@ f]
    ELSE IF outcome = "partial"
    THEN [ok |-> FALSE, fs |-> (p :> FileEntry(<<>>)) @@ f]
    ELSE [ok |-> FALSE, fs |-> f]

RECURSIVE WithAncestors(_, _)
\* f with a directory at p and at every ancestor of p that is missing
WithAncestors(f, p) ==
    IF p = <<>> \/ p \in DOMAIN f THEN f ELSE (p :> DirEntry) @@ WithAncestors(f, PathParent(p))

\* CreateDir with the bug of behaving as create_dir_all: missing ancestors
\* are made and an existing directory is not an error
CreateDirAll(f, p, fault) ==
    IF ~fault /\ Len(p) > 0 /\ ~IsFile(f, p)
    THEN [ok |-> TRUE, fs |-> WithAncestors(f, p)]
    ELSE [ok |-> FALSE, fs |-> f]

\* tokio::fs::create_dir: not recursive, fails on an existing entry
CreateDir(f, p, fault) ==
    IF ~fault /\ Len(p) > 0 /\ IsDir(f, PathParent(p)) /\ p \notin DOMAIN f
    THEN [ok |-> TRUE, fs |-> (p :> DirEntry) @@ f]
    ELSE [ok |-> FALSE, fs |-> f]

\* RemoveFile with the bug of reporting success and removing nothing
RemoveFileKeeps(f, p, fault) ==
    IF ~fault /\ IsFile(f, p)
    THEN [ok |-> TRUE, fs |-> f]
    ELSE [ok |-> FALSE, fs |-> f]

\* tokio::fs::remove_file
RemoveFile(f, p, fault) ==
    IF ~fault /\ IsFile(f, p)
    THEN [ok |-> TRUE, fs |-> Without(f, p)]
    ELSE [ok |-> FALSE, fs |-> f]

\* the names of the direct entries of directory p
EntryNames(f, p) ==
    {q[Len(q)] : q \in {x \in DOMAIN f : Len(x) = Len(p) + 1 /\ PathParent(x) = p}}

\* every order in which the names of S can be listed
Orders(S) ==
    {o \in [1..Cardinality(S) -> S] : \A i, j \in 1..Cardinality(S) : o[i] = o[j] => i = j}

-----------------------------------------------------------------------------
(* serde_json over RessourceMetadata *)

KeyDataExtension == <<"data_extension">>

KeyTypeId == <<"type_id">>

KeyTime == <<"time">>

KeyId == <<"id">>

MetadataKeys == {KeyDataExtension, KeyTypeId, KeyTime, KeyId}

DigitChars == <<"0", "1", "2", "3", "4", "5", "6", "7", "8", "9">>

\* DateTime<Utc> as serialized
TimeToString(t) == <<DigitChars[t + 1]>>

IsTimeString(s) == \E t \in 0..9 : s = TimeToString(t)

ParseTime(s) == CHOOSE t \in 0..9 : s = TimeToString(t)

\* RessourceMetadata
Metadata(ext, tid, time, id) ==
    [data_extension |-> ext, type_id |-> tid, time |-> time, id |-> id]

\* serde_json::to_string(&metadata)
ToJson(m) ==
    <<KeyDataExtension, m.data_extension, KeyTypeId, m.type_id,
      KeyTime, TimeToString(m.time), KeyId, m.id>>

KeyPositions(content, key) ==
    {i \in 1..Len(content) : i % 2 = 1 /\ content[i] = key}

JsonField(content, key) == content[(CHOOSE i \in KeyPositions(content, key) : TRUE) + 1]

\* serde_json::from_str::<RessourceMetadata>: every field present once, in
\* any order, the time a timestamp
FromJson(content) ==
    IF /\ Len(content) > 0
       /\ Len(content) % 2 = 0
       /\ \A key \in MetadataKeys : Cardinality(KeyPositions(content, key)) = 1
       /\ IsTimeString(JsonField(content, KeyTime))
    THEN [ok |-> TRUE,
          metadata |-> Metadata(JsonField(content, KeyDataExtension),
                                JsonField(content, KeyTypeId),
                                ParseTime(JsonField(content, KeyTime)),
                                JsonField(content, KeyId))]
    ELSE [ok |-> FALSE, metadata |-> Metadata(<<>>, <<>>, 0, <<>>)]

-----------------------------------------------------------------------------
(* error.rs: RessourceError and the errors it wraps. causes holds the      *)
(* errors an error carries, in the order of its fields.                    *)

NoRessourcePath == FromVec(<<>>, <<>>)

Error(kind, path, rp, rtype, etype, causes) ==
    [kind |-> kind, path |-> path, ressource_path |-> rp,
     ressource_type |-> rtype, expected_type |-> etype, causes |-> causes]

\* std::io::Error, serde_json::Error
IoError == Error("io", <<>>, NoRessourcePath, <<>>, <<>>, <<>>)

SerdeError == Error("serde", <<>>, NoRessourcePath, <<>>, <<>>, <<>>)

NoError == Error("none", <<>>, NoRessourcePath, <<>>, <<>>, <<>>)

MetadataIO(rp) == Error("MetadataIO", Resolve(rp), rp, <<>>, <<>>, <<IoError>>)

MetadataFormat(rp) == Error("MetadataFormat", Resolve(rp), rp, <<>>, <<>>, <<SerdeError>>)

WriteMetadataIO(rp) == Error("WriteMetadataIO", Resolve(rp), rp, <<>>, <<>>, <<IoError>>)

TypeMismatch(rp, found, expected) ==
    Error("TypeMismatch", Resolve(rp), NoRessourcePath, found, expected, <<>>)

InvalidData(rp, T, cause) == Error("InvalidData", Resolve(rp), rp, TypeId(T), <<>>, <<cause>>)

WriteDataError(rp, T, cause) ==
    Error("WriteDataError", Resolve(rp), rp, TypeId(T), <<>>, <<cause>>)

DeleteMetadataError(data_error, error) ==
    Error("DeleteMetadataError", <<>>, NoRessourcePath, <<>>, <<>>, <<data_error, error>>)

RessourceAtRoot(rp) == Error("RessourceAtRoot", Resolve(rp), rp, <<>>, <<>>, <<>>)

RessourceIdFolded(rp) == Error("RessourceIdFolded", Resolve(rp), rp, <<>>, <<>>, <<>>)

ParentRessource(rp, folder_error) ==
    Error("ParentRessource", Resolve(rp), rp, <<>>, <<>>, <<folder_error>>)

\* FolderRessourceError::NotAFolder of the read that does not enumerate
NotAFolder(path) == Error("NotAFolder", path, NoRessourcePath, <<>>, <<>>, <<>>)

\* FolderRessourceError, and the error of the Text type
FolderError(kind, path) == Error(kind, path, NoRessourcePath, <<>>, <<>>, <<IoError>>)

TextError(path) == Error("TextIo", path, NoRessourcePath, <<>>, <<>>, <<IoError>>)

-----------------------------------------------------------------------------
(* Payloads and results *)

\* FolderRessource { ressources }
FolderData(ressources) == [type |-> "Folder", ressources |-> ressources, text |-> <<>>]

\* Text(text)
TextData(text) == [type |-> "Text", ressources |-> <<>>, text |-> text]

NoData == [type |-> "none", ressources |-> <<>>, text |-> <<>>]

\* MetaRessource { metadata, path }
MetaRessource(metadata, rp) == [metadata |-> metadata, path |-> rp]

NoMeta == MetaRessource(Metadata(<<>>, <<>>, 0, <<>>), NoRessourcePath)

Ok(data, meta) == [ok |-> TRUE, err |-> NoError, data |-> data, meta |-> meta]

Err(e) == [ok |-> FALSE, err |-> e, data |-> NoData, meta |-> NoMeta]

NoResult == [ok |-> FALSE, err |-> NoError, data |-> NoData, meta |-> NoMeta]

-----------------------------------------------------------------------------
(* meta.rs *)

\* MetaRessourceLoad with the bug of not comparing the stored type
MetaRessourceLoadUnchecked(f, rp, T, fault) ==
    LET read == ReadToString(f, MetadataPath(rp), fault)
        parsed == FromJson(read.content)
    IN IF ~read.ok
       THEN Err(MetadataIO(rp))
       ELSE IF ~parsed.ok
       THEN Err(MetadataFormat(rp))
       ELSE Ok(NoData, MetaRessource(parsed.metadata, rp))

\* MetaRessource::<T>::load
MetaRessourceLoad(f, rp, T, fault) ==
    LET read == ReadToString(f, MetadataPath(rp), fault)
        parsed == FromJson(read.content)
    IN IF ~read.ok
       THEN Err(MetadataIO(rp))
       ELSE IF ~parsed.ok
       THEN Err(MetadataFormat(rp))
       ELSE IF parsed.metadata.type_id # TypeId(T)
       THEN Err(TypeMismatch(rp, parsed.metadata.type_id, TypeId(T)))
       ELSE Ok(NoData, MetaRessource(parsed.metadata, rp))

\* MetaRessourceNew with the bug of taking the last id folded into the last
\* component instead of failing
MetaRessourceNewFlattens(rp, T, now) ==
    LET up == Up(rp)
        ids == ResolveComponents(rp)
    IN IF ~up.some
       THEN Err(RessourceAtRoot(rp))
       ELSE IF ids = <<>>
       THEN Err(RessourceIdFolded(rp))
       ELSE Ok(NoData,
               MetaRessource(Metadata(TypeDataExtension(T), TypeId(T), now, ids[Len(ids)]),
                             rp))

\* MetaRessourceNew with the bug of popping the path itself, not a clone of
\* it: the descriptor is bound to the parent path
MetaRessourceNewOfParent(rp, T, now) ==
    LET up == Up(rp)
    IN IF ~up.some
       THEN Err(RessourceAtRoot(rp))
       ELSE IF up.component.kind = "Path"
       THEN Err(RessourceIdFolded(rp))
       ELSE Ok(NoData,
               MetaRessource(Metadata(TypeDataExtension(T), TypeId(T), now, up.component.id),
                             up.rest))

\* MetaRessource::<T>::new; now is the reading of Utc::now()
MetaRessourceNew(rp, T, now) ==
    LET up == Up(rp)
    IN IF ~up.some
       THEN Err(RessourceAtRoot(rp))
       ELSE IF up.component.kind = "Path"
       THEN Err(RessourceIdFolded(rp))
       ELSE Ok(NoData,
               MetaRessource(Metadata(TypeDataExtension(T), TypeId(T), now, up.component.id),
                             rp))

\* MetaRessource::data_path
DataPath(meta) ==
    AddExtension(AddExtension(Resolve(meta.path), DataExt), meta.metadata.data_extension)

-----------------------------------------------------------------------------
(* folder_ressource.rs, and the Text type *)

HasSuffix(s, suffix) ==
    Len(s) >= Len(suffix) /\ SubSeq(s, Len(s) - Len(suffix) + 1, Len(s)) = suffix

\* str::strip_suffix, where HasSuffix
StripSuffix(s, suffix) == SubSeq(s, 1, Len(s) - Len(suffix))

\* CollectRessources with the bug of keeping the names without the suffix
CollectRessourcesUnfiltered(names) ==
    [i \in 1..Len(names) |->
        IF HasSuffix(names[i], MetaJsonSuffix)
        THEN StripSuffix(names[i], MetaJsonSuffix)
        ELSE names[i]]

RECURSIVE CollectRessources(_)
\* the loop of FolderRessource::read over the entries in iteration order
CollectRessources(names) ==
    IF names = <<>>
    THEN <<>>
    ELSE (IF HasSuffix(Head(names), MetaJsonSuffix)
          THEN <<StripSuffix(Head(names), MetaJsonSuffix)>>
          ELSE <<>>) \o CollectRessources(Tail(names))

\* what the environment can do to a read of a directory or of a file
FolderReadFaults == {"none", "open", "next"}

TextReadFaults == {"none", "open"}

\* <FolderRessource as ReadableRessource>::read; order is the order in which
\* the directory lists its entries
FolderRead(f, path, fault, order) ==
    IF fault = "open" \/ ~(path \in DOMAIN f /\ f[path].kind = "dir")
    THEN [ok |-> FALSE, err |-> FolderError("CheckingForFolder", path), data |-> NoData]
    ELSE IF fault = "next"
    THEN [ok |-> FALSE, err |-> FolderError("NextEntry", path), data |-> NoData]
    ELSE [ok |-> TRUE, err |-> NoError, data |-> FolderData(CollectRessources(order))]

\* what the environment can do to the read that does not enumerate: the
\* open or the metadata call fails
FolderReadLibFaults(f, path) ==
    IF path \in DOMAIN f THEN {"none", "open", "metadata"} ELSE {"none"}

\* FolderReadLib with the bug of taking whatever is at the path for a folder
FolderReadLibUnvalidated(f, path, fault) ==
    IF fault # "none" \/ path \notin DOMAIN f
    THEN [ok |-> FALSE, err |-> FolderError("CheckingForFolder", path), data |-> NoData]
    ELSE [ok |-> TRUE, err |-> NoError, data |-> FolderData(<<>>)]

\* <FolderRessource as ReadableRessource>::read as lib.rs has it, without
\* enumeration: File::open, metadata, is_dir
FolderReadLib(f, path, fault) ==
    IF fault # "none" \/ path \notin DOMAIN f
    THEN [ok |-> FALSE, err |-> FolderError("CheckingForFolder", path), data |-> NoData]
    ELSE IF f[path].kind # "dir"
    THEN [ok |-> FALSE, err |-> NotAFolder(path), data |-> NoData]
    ELSE [ok |-> TRUE, err |-> NoError, data |-> FolderData(<<>>)]

\* <FolderRessource as WritableRessource>::write
FolderWrite(f, path, outcome) ==
    LET made == CreateDir(f, path, outcome # "ok")
    IN IF made.ok
       THEN [ok |-> TRUE, err |-> NoError, fs |-> made.fs]
       ELSE [ok |-> FALSE, err |-> FolderError("CreatingFolder", path), fs |-> made.fs]

\* Text as ReadableRessource: the content of the file
TextRead(f, path, fault) ==
    LET read == ReadToString(f, path, fault # "none")
    IN IF read.ok
       THEN [ok |-> TRUE, err |-> NoError, data |-> TextData(read.content)]
       ELSE [ok |-> FALSE, err |-> TextError(path), data |-> NoData]

\* Text as WritableRessource: the text becomes the content of the file
TextWrite(f, path, data, outcome) ==
    LET written == FsWrite(f, path, data.text, outcome)
    IN IF written.ok
       THEN [ok |-> TRUE, err |-> NoError, fs |-> written.fs]
       ELSE [ok |-> FALSE, err |-> TextError(path), fs |-> written.fs]

\* T::read
TypeRead(T, f, path, fault, order) ==
    IF T = "Folder" THEN FolderRead(f, path, fault, order) ELSE TextRead(f, path, fault)

\* T::write
TypeWrite(T, f, path, data, outcome) ==
    IF T = "Folder" THEN FolderWrite(f, path, outcome) ELSE TextWrite(f, path, data, outcome)

\* the faults and listing orders a read of path as T can meet: a fault is
\* drawn only where the read would otherwise succeed
ReadFaults(T, f, path) ==
    IF T = "Folder"
    THEN IF path \in DOMAIN f /\ f[path].kind = "dir" THEN FolderReadFaults ELSE {"none"}
    ELSE IF IsFile(f, path) THEN TextReadFaults ELSE {"none"}

ReadOrders(T, f, path) ==
    IF T = "Folder" /\ path \in DOMAIN f /\ f[path].kind = "dir"
    THEN Orders(EntryNames(f, path))
    ELSE {<<>>}

\* the outcomes a write of path as T can have
TypeWriteOutcomes(T, f, path) ==
    IF T = "Folder"
    THEN IF Len(path) > 0 /\ IsDir(f, PathParent(path)) /\ path \notin DOMAIN f
         THEN {"ok", "fail"}
         ELSE {"fail"}
    ELSE WriteOutcomes(f, path)

-----------------------------------------------------------------------------
(* The callers: processes that issue load and create calls. Every await of *)
(* the code is a step of its own. call[p] is the call process p is in or   *)
(* has just finished; last is the call that finished before it.            *)

Procs == {1, 2}

IdA == <<"a">>

IdB == <<"b">>

Ids == {IdA, IdB}

\* the flat paths of at most MaxDepth ids
FlatPaths ==
    UNION {{FromVec(Root, [i \in 1..n |-> CompRessource(ids[i])]) : ids \in [1..n -> Ids]}
           : n \in 0..MaxDepth}

\* a path whose last component is folded
FoldedPaths == {FromVec(Root, <<CompPath(FromVec(Root, <<CompRessource(IdA)>>))>>)}

PathInputs == FlatPaths \cup FoldedPaths

Texts == {<<"h", "i">>, <<"y", "o">>}

DataInputs(T) ==
    IF T = "Folder"
    THEN {FolderData(<<>>)}
    ELSE {TextData(t) : t \in Texts}

NoCall ==
    [op |-> "none", path |-> NoRessourcePath, type |-> "none", data |-> NoData,
     meta |-> NoMeta, parent |-> NoMeta, checked |-> NoRessourcePath,
     werr |-> NoError, removed |-> <<>>, log |-> <<>>, injected |-> FALSE, pre |-> <<>>,
     result |-> NoResult]

Logged(p, entry, inj) ==
    [call[p] EXCEPT !.log = Append(@, entry), !.injected = @ \/ inj]

\* a call returns
Finish(p, c, result) ==
    /\ call' = [call EXCEPT ![p] = [c EXCEPT !.result = result]]
    /\ pc' = [pc EXCEPT ![p] = "done"]

\* a call goes on to its next await
Goto(p, c, label) ==
    /\ call' = [call EXCEPT ![p] = c]
    /\ pc' = [pc EXCEPT ![p] = label]

\* a caller may start a call: a store with one caller gets its calls one
\* after the other; overlapping callers are two
MayCall(p) ==
    /\ ncalls < MaxCalls
    /\ pc[p] = "idle"
    /\ serial => p = 1

Started(p, op, rp, T, data) ==
    [NoCall EXCEPT !.op = op, !.path = rp, !.type = T, !.data = data, !.pre = fs]

StartCall(p) ==
    /\ ncalls' = ncalls + 1
    /\ UNCHANGED <<fs, last, serial>>

\* the caller takes the result: the call is over and is remembered as the
\* last call that returned. A caller of a serialized store may call again;
\* overlapping callers make one call each and take their results once both
\* calls are over.
Return(p) ==
    /\ pc[p] = "done"
    /\ serial \/ \A q \in Procs : pc[q] \in {"done", "left"}
    /\ last' = [call[p] EXCEPT !.pre = <<>>]
    /\ call' = [call EXCEPT ![p] = NoCall]
    /\ pc' = [pc EXCEPT ![p] = IF serial THEN "idle" ELSE "left"]
    /\ UNCHANGED <<fs, ncalls, serial>>

-----------------------------------------------------------------------------
(* ressource.rs: Ressource::load *)

\* RessourceLoadMeta with the bug of reporting an unreadable sidecar as a
\* sidecar that does not parse
RessourceLoadMetaFormatFirst(f, rp, T, fault) ==
    IF ~ReadToString(f, MetadataPath(rp), fault).ok
    THEN Err(MetadataFormat(rp))
    ELSE MetaRessourceLoad(f, rp, T, fault)

\* the first await of Ressource::load: MetaRessource::<T>::load
RessourceLoadMeta(f, rp, T, fault) == MetaRessourceLoad(f, rp, T, fault)

\* RessourceLoadData with the bug of reading at the resolved path, not at
\* the data path
RessourceLoadDataAtResolved(f, rp, T, meta, fault, order) ==
    LET read == TypeRead(T, f, Resolve(rp), fault, order)
    IN IF read.ok
       THEN Ok(read.data, meta)
       ELSE Err(InvalidData(rp, T, read.err))

\* the second await of Ressource::load: T::read on the data path
RessourceLoadData(f, rp, T, meta, fault, order) ==
    LET read == TypeRead(T, f, DataPath(meta), fault, order)
    IN IF read.ok
       THEN Ok(read.data, meta)
       ELSE Err(InvalidData(rp, T, read.err))

\* a fault is drawn for the read of a sidecar only where the read would
\* otherwise succeed
MetaFaults(f, rp) == IF IsFile(f, MetadataPath(rp)) THEN {FALSE, TRUE} ELSE {FALSE}

LoadCall(p) ==
    /\ MayCall(p)
    /\ \E rp \in PathInputs, T \in Types :
          Goto(p, Started(p, "load", rp, T, NoData), "load_meta")
    /\ StartCall(p)

\* LoadMeta with the bug of deleting a sidecar that does not parse
LoadMetaRepairs(p) ==
    /\ pc[p] = "load_meta"
    /\ \E fault \in MetaFaults(fs, call[p].path) :
          LET r == RessourceLoadMeta(fs, call[p].path, call[p].type, fault)
          IN /\ IF r.ok
                THEN Goto(p, [Logged(p, "meta_read_ok", fault) EXCEPT !.meta = r.meta],
                          "load_data")
                ELSE Finish(p, Logged(p, "meta_read_fail", fault), r)
             /\ fs' = IF ~r.ok /\ r.err.kind = "MetadataFormat"
                      THEN Without(fs, MetadataPath(call[p].path))
                      ELSE fs
    /\ UNCHANGED <<last, ncalls, serial>>

LoadMeta(p) ==
    /\ pc[p] = "load_meta"
    /\ \E fault \in MetaFaults(fs, call[p].path) :
          LET r == RessourceLoadMeta(fs, call[p].path, call[p].type, fault)
          IN IF r.ok
             THEN Goto(p, [Logged(p, "meta_read_ok", fault) EXCEPT !.meta = r.meta],
                       "load_data")
             ELSE Finish(p, Logged(p, "meta_read_fail", fault), r)
    /\ UNCHANGED <<fs, last, ncalls, serial>>

LoadData(p) ==
    /\ pc[p] = "load_data"
    /\ LET c == call[p]
           dp == DataPath(c.meta)
       IN \E fault \in ReadFaults(c.type, fs, dp), order \in ReadOrders(c.type, fs, dp) :
            LET r == RessourceLoadData(fs, c.path, c.type, c.meta, fault, order)
            IN Finish(p, Logged(p, IF r.ok THEN "data_read_ok" ELSE "data_read_fail",
                                fault # "none"), r)
    /\ UNCHANGED <<fs, last, ncalls, serial>>

-----------------------------------------------------------------------------
(* ressource.rs: Ressource::new *)

\* the path Ressource::new loads as a FolderRessource before it writes
ParentCheckPath(rp) == rp

\* Ressource::new up to its first await: the metadata is made, and the
\* path must have a last component
CreateCall(p) ==
    /\ MayCall(p)
    /\ \E rp \in PathInputs, T \in Types :
        \E data \in DataInputs(T) :
          LET c == Started(p, "create", rp, T, data)
              m == MetaRessourceNew(rp, T, ncalls + 1)
          IN IF ~m.ok
             THEN Finish(p, c, Err(m.err))
             ELSE IF ~Up(rp).some
             THEN Finish(p, c, Err(RessourceAtRoot(rp)))
             ELSE Goto(p, [c EXCEPT !.meta = m.meta, !.checked = ParentCheckPath(rp)],
                       "parent_meta")
    /\ StartCall(p)

\* Ressource::<FolderRessource>::load, first await
ParentMeta(p) ==
    /\ pc[p] = "parent_meta"
    /\ LET c == call[p]
       IN \E fault \in MetaFaults(fs, c.checked) :
            LET r == RessourceLoadMeta(fs, c.checked, "Folder", fault)
            IN IF r.ok
               THEN Goto(p, [Logged(p, "parent_meta_ok", fault) EXCEPT !.parent = r.meta],
                         "parent_data")
               ELSE Finish(p, Logged(p, "parent_check_fail", fault),
                           Err(ParentRessource(c.path, r.err)))
    /\ UNCHANGED <<fs, last, ncalls, serial>>

\* Ressource::<FolderRessource>::load, second await
ParentData(p) ==
    /\ pc[p] = "parent_data"
    /\ LET c == call[p]
           dp == DataPath(c.parent)
       IN \E fault \in ReadFaults("Folder", fs, dp), order \in ReadOrders("Folder", fs, dp) :
            LET r == RessourceLoadData(fs, c.checked, "Folder", c.parent, fault, order)
            IN IF r.ok
               THEN Goto(p, Logged(p, "parent_check_ok", FALSE), "write_meta")
               ELSE Finish(p, Logged(p, "parent_check_fail", fault # "none"),
                           Err(ParentRessource(c.path, r.err)))
    /\ UNCHANGED <<fs, last, ncalls, serial>>

\* WriteMeta with the bug of going on to the data after a failed write
WriteMetaContinues(p) ==
    /\ pc[p] = "write_meta"
    /\ LET c == call[p]
           mp == MetadataPath(c.path)
       IN \E outcome \in WriteOutcomes(fs, mp) :
            LET w == FsWrite(fs, mp, ToJson(c.meta.metadata), outcome)
            IN /\ fs' = w.fs
               /\ Goto(p, Logged(p, IF w.ok THEN "meta_write_ok" ELSE "meta_write_fail",
                                 ~w.ok /\ CanWrite(fs, mp)),
                       "write_data")
    /\ UNCHANGED <<last, ncalls, serial>>

\* fs::write of the sidecar
WriteMeta(p) ==
    /\ pc[p] = "write_meta"
    /\ LET c == call[p]
           mp == MetadataPath(c.path)
       IN \E outcome \in WriteOutcomes(fs, mp) :
            LET w == FsWrite(fs, mp, ToJson(c.meta.metadata), outcome)
            IN /\ fs' = w.fs
               /\ IF w.ok
                  THEN Goto(p, Logged(p, "meta_write_ok", FALSE), "write_data")
                  ELSE Finish(p, Logged(p, "meta_write_fail", CanWrite(fs, mp)),
                              Err(WriteMetadataIO(c.path)))
    /\ UNCHANGED <<last, ncalls, serial>>

\* WriteData with the bug of returning the write error without deleting
\* the sidecar
WriteDataNoCompensate(p) ==
    /\ pc[p] = "write_data"
    /\ LET c == call[p]
           dp == DataPath(c.meta)
       IN \E outcome \in TypeWriteOutcomes(c.type, fs, dp) :
            LET w == TypeWrite(c.type, fs, dp, c.data, outcome)
                inj == "ok" \in TypeWriteOutcomes(c.type, fs, dp) /\ outcome # "ok"
            IN /\ fs' = w.fs
               /\ IF w.ok
                  THEN Finish(p, Logged(p, "data_write_ok", FALSE), Ok(c.data, c.meta))
                  ELSE Finish(p, Logged(p, "data_write_fail", inj),
                              Err(WriteDataError(c.path, c.type, w.err)))
    /\ UNCHANGED <<last, ncalls, serial>>

\* data.write(&data_path)
WriteData(p) ==
    /\ pc[p] = "write_data"
    /\ LET c == call[p]
           dp == DataPath(c.meta)
       IN \E outcome \in TypeWriteOutcomes(c.type, fs, dp) :
            LET w == TypeWrite(c.type, fs, dp, c.data, outcome)
                inj == "ok" \in TypeWriteOutcomes(c.type, fs, dp) /\ outcome # "ok"
            IN /\ fs' = w.fs
               /\ IF w.ok
                  THEN Finish(p, Logged(p, "data_write_ok", FALSE), Ok(c.data, c.meta))
                  ELSE Goto(p, [Logged(p, "data_write_fail", inj)
                                  EXCEPT !.werr = WriteDataError(c.path, c.type, w.err)],
                            "remove_meta")
    /\ UNCHANGED <<last, ncalls, serial>>

\* RemoveMeta with the bug of hiding a failed deletion behind the write
\* error
RemoveMetaSwallows(p) ==
    /\ pc[p] = "remove_meta"
    /\ LET c == call[p]
           mp == MetadataPath(c.path)
       IN \E fault \in (IF IsFile(fs, mp) THEN {FALSE, TRUE} ELSE {FALSE}) :
            LET r == RemoveFile(fs, mp, fault)
            IN /\ fs' = r.fs
               /\ Finish(p, Logged(p, IF r.ok THEN "delete_ok" ELSE "delete_fail", fault),
                         Err(c.werr))
    /\ UNCHANGED <<last, ncalls, serial>>

\* fs::remove_file of the sidecar, after the write of the data failed
RemoveMeta(p) ==
    /\ pc[p] = "remove_meta"
    /\ LET c == call[p]
           mp == MetadataPath(c.path)
       IN \E fault \in (IF IsFile(fs, mp) THEN {FALSE, TRUE} ELSE {FALSE}) :
            LET r == RemoveFile(fs, mp, fault)
            IN /\ fs' = r.fs
               /\ IF r.ok
                  THEN Finish(p, [Logged(p, "delete_ok", FALSE) EXCEPT !.removed = fs[mp].content],
                              Err(c.werr))
                  ELSE Finish(p, Logged(p, "delete_fail", fault),
                              Err(DeleteMetadataError(c.werr, IoError)))
    /\ UNCHANGED <<last, ncalls, serial>>

-----------------------------------------------------------------------------
(* The stores a behaviour can start from: the root alone, or the root with *)
(* resources laid out by the program's own path functions.                 *)

\* the directories, sidecar and data of one resource of type T at rp
RessourceFiles(rp, T, text) ==
    LET m == MetaRessourceNew(rp, T, 0).meta
        mp == MetadataPath(rp)
        dp == DataPath(m)
        dirs == {SubSeq(mp, 1, n) : n \in 1..(Len(mp) - 1)}
    IN [q \in dirs |-> DirEntry]
       @@ (mp :> FileEntry(ToJson(m.metadata)))
       @@ (dp :> IF T = "Folder" THEN DirEntry ELSE FileEntry(text))

RootOnly == (<<>> :> DirEntry) @@ [q \in {Root} |-> DirEntry]

PathA == FromVec(Root, <<CompRessource(IdA)>>)

PathAB == FromVec(Root, <<CompRessource(IdA), CompRessource(IdB)>>)

\* what a store can hold at one path to begin with
InitKinds == {"absent", "Folder", "Text"}

InitAt(rp, kind) ==
    IF kind = "absent" THEN RootOnly ELSE RessourceFiles(rp, kind, <<"h", "i">>) @@ RootOnly

InitStores == {InitAt(PathA, ka) @@ InitAt(PathAB, kb) : ka \in InitKinds, kb \in InitKinds}

InitCommon ==
    /\ fs \in InitStores
    /\ pc = [p \in Procs |-> "idle"]
    /\ call = [p \in Procs |-> NoCall]
    /\ last = NoCall
    /\ ncalls = 0

\* one caller, or callers that take turns
Init == InitCommon /\ serial = TRUE

\* two callers whose calls overlap
InitConc == InitCommon /\ serial = FALSE

Next ==
    \E p \in Procs :
        \/ LoadCall(p)
        \/ LoadMeta(p)
        \/ LoadData(p)
        \/ CreateCall(p)
        \/ ParentMeta(p)
        \/ ParentData(p)
        \/ WriteMeta(p)
        \/ WriteData(p)
        \/ RemoveMeta(p)
        \/ Return(p)

Spec == Init /\ [][Next]_vars

SpecConc == InitConc /\ [][Next]_vars

-----------------------------------------------------------------------------
(* The path operations on their own: a caller holds a RessourcePath, at    *)
(* first the empty path of the root, and applies push, append, append_id,  *)
(* up and MetaRessource::new to it. call[1] is the operation just applied, *)
(* with the path before and after it; last is the operation before that.   *)

NoUp == [some |-> FALSE, component |-> CompRessource(<<>>)]

NoPathOp ==
    [op |-> "none", path |-> FromVec(Root, <<>>), before |-> FromVec(Root, <<>>),
     arg |-> <<>>, returned |-> NoUp, type |-> "none", result |-> NoResult]

\* the ids a caller can pass: the empty string is a String too
IdInputs == Ids \cup {<<>>}

\* the components a caller can pass: an id, or a path to fold in
ComponentInputs ==
    {CompRessource(id) : id \in IdInputs}
        \cup {CompPath(PathAB), CompPath(FromVec(Root, <<>>))}

\* the vectors handed to append and append_id
VecInputs(S, room) ==
    UNION {[1..n -> S] : n \in 0..(IF room < 2 THEN room ELSE 2)}

\* the path the caller holds
Held == call[1].path

Room == MaxPathLen - Len(Held.path)

Applied(op, path, arg, returned, type, result) ==
    /\ call' = [call EXCEPT ![1] = [op |-> op, path |-> path, before |-> Held,
                                     arg |-> arg, returned |-> returned, type |-> type,
                                     result |-> result]]
    /\ last' = call[1]
    /\ UNCHANGED <<fs, pc, ncalls, serial>>

\* path.push(component)
PushOp ==
    /\ pc[1] = "idle"
    /\ Room >= 1
    /\ \E component \in ComponentInputs :
          Applied("push", Push(Held, component), <<component>>, NoUp, "none", NoResult)

\* path.append(&mut components)
AppendOp ==
    /\ pc[1] = "idle"
    /\ \E components \in VecInputs(ComponentInputs, Room) :
          Applied("append", AppendComponents(Held, components), components, NoUp, "none",
                  NoResult)

\* path.append_id(&mut ids)
AppendIdOp ==
    /\ pc[1] = "idle"
    /\ \E ids \in VecInputs(IdInputs, Room) :
          Applied("append_id", AppendId(Held, ids), ids, NoUp, "none", NoResult)

\* path.up()
UpOp ==
    /\ pc[1] = "idle"
    /\ LET up == Up(Held)
       IN Applied("up", up.rest, <<>>, [some |-> up.some, component |-> up.component],
                  "none", NoResult)

\* MetaRessource::<T>::new(path.clone())
MetaNewOp ==
    /\ pc[1] = "idle"
    /\ \E T \in Types :
          Applied("meta_new", Held, <<>>, NoUp, T, MetaRessourceNew(Held, T, 1))

InitPath ==
    /\ fs = RootOnly
    /\ pc = [p \in Procs |-> "idle"]
    /\ call = [p \in Procs |-> NoPathOp]
    /\ last = NoPathOp
    /\ ncalls = 0
    /\ serial = TRUE

NextPath == PushOp \/ AppendOp \/ AppendIdOp \/ UpOp \/ MetaNewOp

SpecPath == InitPath /\ [][NextPath]_vars

-----------------------------------------------------------------------------
(* FolderRessource::read on its own: a directory with some entries, or a   *)
(* file, or nothing, at one path, and a caller that reads it as a folder.  *)
(* call[1] is the read just made, with the order in which the directory    *)
(* listed its entries.                                                     *)

\* the path that is read
ListedDir == Append(Root, <<"d">>)

\* the names an entry can have
EntryNameInputs ==
    {<<"p">> \o MetaJsonExt,
     <<"q">> \o MetaJsonExt,
     MetaJsonExt,
     <<"p">> \o MetaJsonExt \o <<".", "b", "a", "k">>,
     <<"m", "e", "t", "a", ".", "j", "s", "o", "n">>,
     <<"n", ".", "t", "x", "t">>}

\* an entry is a file; the one named q.meta.json is a directory
EntryOf(name) == IF name = <<"q">> \o MetaJsonExt THEN DirEntry ELSE FileEntry(<<>>)

ListedStore(names) ==
    [q \in {Append(ListedDir, name) : name \in names} |-> EntryOf(q[Len(q)])]
        @@ (ListedDir :> DirEntry) @@ RootOnly

ReadStores ==
    {ListedStore(names) : names \in {S \in SUBSET EntryNameInputs : Cardinality(S) <= MaxEntries}}
        \cup {RootOnly, (ListedDir :> FileEntry(<<>>)) @@ RootOnly}

NoRead == [op |-> "none", order |-> <<>>, fault |-> "none", result |-> NoResult]

\* FolderRessource::read(path)
ReadFolderOp ==
    /\ pc[1] = "idle"
    /\ \E fault \in ReadFaults("Folder", fs, ListedDir),
          order \in ReadOrders("Folder", fs, ListedDir) :
          call' = [call EXCEPT ![1] = [op |-> "read", order |-> order, fault |-> fault,
                                       result |-> FolderRead(fs, ListedDir, fault, order)]]
    /\ UNCHANGED <<fs, pc, last, ncalls, serial>>

\* FolderRessource::read(path) as lib.rs has it
ProbeFolderOp ==
    /\ pc[1] = "idle"
    /\ \E fault \in FolderReadLibFaults(fs, ListedDir) :
          call' = [call EXCEPT ![1] = [op |-> "probe", order |-> <<>>, fault |-> fault,
                                       result |-> FolderReadLib(fs, ListedDir, fault)]]
    /\ UNCHANGED <<fs, pc, last, ncalls, serial>>

\* a store with the sidecar of a Folder at [a] and, at its data path, the
\* directory, a file, or nothing
LoadStores ==
    LET base == RessourceFiles(PathA, "Folder", <<>>) @@ RootOnly
        dp == DataPath(MetaRessourceNew(PathA, "Folder", 0).meta)
    IN {base, (dp :> FileEntry(<<>>)) @@ base, Without(base, dp)}

\* Ressource::<FolderRessource>::load([a]), both awaits
LoadFolderOp ==
    /\ pc[1] = "idle"
    /\ LET m == RessourceLoadMeta(fs, PathA, "Folder", FALSE)
           dp == DataPath(m.meta)
       IN \E fault \in ReadFaults("Folder", fs, dp), order \in ReadOrders("Folder", fs, dp) :
            call' = [call EXCEPT ![1] =
                        [op |-> "load", order |-> order, fault |-> fault,
                         result |-> IF m.ok
                                    THEN RessourceLoadData(fs, PathA, "Folder", m.meta, fault,
                                                           order)
                                    ELSE m]]
    /\ UNCHANGED <<fs, pc, last, ncalls, serial>>

\* the second await of Ressource::load with the read of lib.rs
RessourceLoadDataLib(f, rp, meta, fault) ==
    LET read == FolderReadLib(f, DataPath(meta), fault)
    IN IF read.ok
       THEN Ok(read.data, meta)
       ELSE Err(InvalidData(rp, "Folder", read.err))

\* Ressource::<FolderRessource>::load([a]) as lib.rs has it, both awaits
LoadFolderLibOp ==
    /\ pc[1] = "idle"
    /\ LET m == RessourceLoadMeta(fs, PathA, "Folder", FALSE)
       IN \E fault \in FolderReadLibFaults(fs, DataPath(m.meta)) :
            call' = [call EXCEPT ![1] =
                        [op |-> "load_lib", order |-> <<>>, fault |-> fault,
                         result |-> IF m.ok
                                    THEN RessourceLoadDataLib(fs, PathA, m.meta, fault)
                                    ELSE m]]
    /\ UNCHANGED <<fs, pc, last, ncalls, serial>>

\* a directory next to the listed one
WrittenDir == Append(Root, <<"w">>)

\* the paths a folder is written to: the listed directory, the directory
\* next to it, an entry of that one, and an entry of that entry
WriteTargets ==
    {ListedDir,
     WrittenDir,
     Append(WrittenDir, <<"x">>),
     Append(Append(WrittenDir, <<"x">>), <<"y">>)}

\* FolderRessource::write(path); the outcome is what the environment does to
\* create_dir, "ok" when it injects no failure of its own
WriteFolderOp ==
    /\ pc[1] = "idle"
    /\ \E target \in WriteTargets :
         \E outcome \in {"ok", "fail"} :
            LET w == FolderWrite(fs, target, outcome)
            IN /\ fs' = w.fs
               /\ call' = [call EXCEPT ![1] =
                              [op |-> "write", order |-> <<>>, fault |-> outcome,
                               result |-> [ok |-> w.ok, err |-> w.err],
                               target |-> target, pre |-> fs]]
    /\ UNCHANGED <<pc, last, ncalls, serial>>

InitRead ==
    /\ fs \in ReadStores \cup LoadStores
    /\ pc = [p \in Procs |-> "idle"]
    /\ call = [p \in Procs |-> NoRead]
    /\ last = NoRead
    /\ ncalls = 0
    /\ serial = TRUE

NextRead ==
    ReadFolderOp \/ ProbeFolderOp \/ LoadFolderOp \/ LoadFolderLibOp \/ WriteFolderOp

SpecRead == InitRead /\ [][NextRead]_vars

-----------------------------------------------------------------------------
(* Vocabulary of the properties *)

Finished(p, op) == pc[p] = "done" /\ call[p].op = op

SamePath(rp1, rp2) ==
    rp1.root = rp2.root /\ ResolveComponents(rp1) = ResolveComponents(rp2)

\* rp loads as a T from the store f when no I/O fails
LoadsAs(f, rp, T) ==
    LET m == RessourceLoadMeta(f, rp, T, FALSE)
    IN /\ m.ok
       /\ \E order \in ReadOrders(T, f, DataPath(m.meta)) :
             RessourceLoadData(f, rp, T, m.meta, "none", order).ok

InLog(c, entry) == \E i \in 1..Len(c.log) : c.log[i] = entry

LastLog(c) == IF c.log = <<>> THEN "none" ELSE c.log[Len(c.log)]

\* the parsed sidecar of rp in the store f
Stored(f, rp) == FromJson(ReadToString(f, MetadataPath(rp), FALSE).content)

FlatNonEmpty(rp) ==
    rp.path # <<>> /\ \A i \in 1..Len(rp.path) : rp.path[i].kind = "Ressource"

-----------------------------------------------------------------------------
-----------------------------------------------------------------------------
\* the parent of rp is a valid container in the store f: the root directory
\* for a path of one id, else a path that loads as a Folder
ValidParent(f, rp) ==
    IF Len(rp.path) = 1 THEN IsDir(f, rp.root) ELSE LoadsAs(f, Up(rp).rest, "Folder")

\* C2: create(P, D) succeeds whenever the parent of P is a valid container,
\* nothing is persisted at P and no I/O step fails; the parent check is made
\* on the parent path of P.
CreateSucceedsUnderValidParent ==
    \A p \in Procs :
        (/\ Finished(p, "create")
         /\ FlatNonEmpty(call[p].path)
         /\ ~call[p].injected
         /\ ~InLog(call[p], "meta_write_fail")
         /\ ~InLog(call[p], "data_write_fail")
         /\ ValidParent(call[p].pre, call[p].path)
         /\ MetadataPath(call[p].path) \notin DOMAIN call[p].pre
         /\ DataPath(call[p].meta) \notin DOMAIN call[p].pre)
        => /\ call[p].result.ok
           /\ call[p].checked = Up(call[p].path).rest

-----------------------------------------------------------------------------
\* C3: rollback leaves no residue. When the write of the data fails and the
\* deletion of the sidecar succeeds, create returns the write-data error and
\* no sidecar is left at P; a load(P) that follows fails with MetadataIO.
RollbackLeavesNoResidue ==
    /\ \A p \in Procs :
          (Finished(p, "create") /\ LastLog(call[p]) = "delete_ok")
          => /\ ~call[p].result.ok
             /\ call[p].result.err.kind = "WriteDataError"
             /\ call[p].result.err = call[p].werr
             /\ MetadataPath(call[p].path) \notin DOMAIN fs
    /\ \A p \in Procs :
          (/\ Finished(p, "load")
           /\ last.op = "create"
           /\ LastLog(last) = "delete_ok"
           /\ SamePath(call[p].path, last.path))
          => /\ ~call[p].result.ok
             /\ call[p].result.err.kind = "MetadataIO"

\* a load has failed with MetadataIO right after a rolled-back create
RollbackWitness ==
    \E p \in Procs :
        /\ Finished(p, "load")
        /\ last.op = "create"
        /\ InLog(last, "data_write_fail")
        /\ LastLog(last) = "delete_ok"
        /\ last.result.err.kind = "WriteDataError"
        /\ SamePath(call[p].path, last.path)
        /\ call[p].result.err.kind = "MetadataIO"

-----------------------------------------------------------------------------
\* C4: missing parent rejection. create(P, D) for a path of two or more ids
\* whose parent does not load as a Folder fails with ParentRessource and
\* leaves no sidecar and no data at P.
MissingParentRejected ==
    \A p \in Procs :
        (/\ Finished(p, "create")
         /\ FlatNonEmpty(call[p].path)
         /\ Len(call[p].path.path) >= 2
         /\ ~LoadsAs(call[p].pre, Up(call[p].path).rest, "Folder"))
        => /\ ~call[p].result.ok
           /\ call[p].result.err.kind = "ParentRessource"
           /\ MetadataPath(call[p].path) \notin DOMAIN fs
           /\ DataPath(call[p].meta) \notin DOMAIN fs

-----------------------------------------------------------------------------
\* C5: root rejection. create on the empty path fails with RessourceAtRoot
\* and makes no I/O step: no sidecar write, no data write, no deletion, and
\* the filesystem is as it was.
RootRejection ==
    \A p \in Procs :
        (Finished(p, "create") /\ call[p].path.path = <<>>)
        => /\ ~call[p].result.ok
           /\ call[p].result.err.kind = "RessourceAtRoot"
           /\ call[p].log = <<>>
           /\ fs = call[p].pre

\* a create on the empty path has returned RessourceAtRoot
RootRejectionWitness ==
    \E p \in Procs :
        /\ Finished(p, "create")
        /\ call[p].path.path = <<>>
        /\ call[p].result.err.kind = "RessourceAtRoot"

-----------------------------------------------------------------------------
\* C6: type mismatch is detected. A load(P) as B of a resource whose sidecar
\* declares another type, in particular one created at P as A just before,
\* fails with TypeMismatch carrying the found and the expected type id, and
\* leaves the files as they were.
TypeMismatchDetected ==
    \A p \in Procs :
        /\ (/\ Finished(p, "load")
            /\ ~call[p].injected
            /\ IsFile(call[p].pre, MetadataPath(call[p].path))
            /\ Stored(call[p].pre, call[p].path).ok
            /\ Stored(call[p].pre, call[p].path).metadata.type_id # TypeId(call[p].type))
           => /\ ~call[p].result.ok
              /\ call[p].result.err.kind = "TypeMismatch"
              /\ call[p].result.err.ressource_type
                   = Stored(call[p].pre, call[p].path).metadata.type_id
              /\ call[p].result.err.expected_type = TypeId(call[p].type)
              /\ fs = call[p].pre
        /\ (/\ Finished(p, "load")
            /\ ~call[p].injected
            /\ last.op = "create"
            /\ last.result.ok
            /\ SamePath(call[p].path, last.path)
            /\ call[p].type # last.type)
           => /\ call[p].result.err.kind = "TypeMismatch"
              /\ call[p].result.err.ressource_type = TypeId(last.type)
              /\ call[p].result.err.expected_type = TypeId(call[p].type)
              /\ fs = call[p].pre

\* a load as another type has failed with TypeMismatch right after a create
TypeMismatchWitness ==
    \E p \in Procs :
        /\ Finished(p, "load")
        /\ last.op = "create"
        /\ last.result.ok
        /\ SamePath(call[p].path, last.path)
        /\ call[p].type # last.type
        /\ call[p].result.err.kind = "TypeMismatch"
        /\ call[p].result.err.ressource_type = TypeId(last.type)

-----------------------------------------------------------------------------
WriteEntries == {"meta_write_ok", "meta_write_fail"}

DataEntries == {"data_write_ok", "data_write_fail"}

DeleteEntries == {"delete_ok", "delete_fail"}

\* C7: step ordering of create. The sidecar is written only right after the
\* parent check succeeded, the data are written only right after the sidecar
\* write succeeded, the deletion is attempted only right after the data
\* write failed, and a failed data write is always followed by the deletion:
\* the call returns only after it.
StepOrdering ==
    \A p \in Procs :
        call[p].op = "create"
        => LET log == call[p].log
           IN /\ \A i \in 1..Len(log) :
                    /\ log[i] \in WriteEntries
                         => i > 1 /\ log[i - 1] = "parent_check_ok"
                    /\ log[i] \in DataEntries
                         => i > 1 /\ log[i - 1] = "meta_write_ok"
                    /\ log[i] \in DeleteEntries
                         => i > 1 /\ log[i - 1] = "data_write_fail"
                    /\ log[i] = "parent_check_ok"
                         => i = 2 /\ log[1] = "parent_meta_ok"
              /\ LastLog(call[p]) = "data_write_fail" => pc[p] = "remove_meta"
              /\ LastLog(call[p]) = "meta_write_ok" => pc[p] = "write_data"
              /\ LastLog(call[p]) = "parent_check_ok" => pc[p] = "write_meta"

\* a create has gone through all four steps
StepOrderingWitness ==
    \E p \in Procs :
        /\ Finished(p, "create")
        /\ call[p].log = <<"parent_meta_ok", "parent_check_ok", "meta_write_ok",
                           "data_write_fail", "delete_ok">>

-----------------------------------------------------------------------------
\* C8: compensation failure is exposed. create returns DeleteMetadataError
\* exactly when the data write failed and the deletion of the sidecar failed
\* too; the error carries the write-data error and the deletion error, the
\* sidecar is still on disk, and no other outcome of create carries two
\* causes.
CompensationFailureExposed ==
    \A p \in Procs :
        Finished(p, "create")
        => LET c == call[p]
               e == c.result.err
           IN /\ (~c.result.ok /\ e.kind = "DeleteMetadataError")
                   <=> (InLog(c, "data_write_fail") /\ LastLog(c) = "delete_fail")
              /\ LastLog(c) = "delete_fail"
                   => /\ e.causes = <<c.werr, IoError>>
                      /\ c.werr.kind = "WriteDataError"
                      /\ IsFile(fs, MetadataPath(c.path))
              /\ Len(e.causes) = 2 => e.kind = "DeleteMetadataError"

\* a create has returned DeleteMetadataError with its two causes
CompensationFailureWitness ==
    \E p \in Procs :
        /\ Finished(p, "create")
        /\ call[p].result.err.kind = "DeleteMetadataError"
        /\ Len(call[p].result.err.causes) = 2
        /\ LastLog(call[p]) = "delete_fail"

-----------------------------------------------------------------------------
\* q has returned success from a create whose sidecar the compensating
\* deletion of p removed
LostSidecar(p, q) ==
    /\ p # q
    /\ call[p].op = "create"
    /\ Finished(q, "create")
    /\ call[q].result.ok
    /\ call[p].removed = ToJson(call[q].meta.metadata)

\* C9: unserialized creators race. With two overlapping creates of one path,
\* both pass the parent check and write the sidecar, and when the deletion
\* of the one, after its data write failed, removes the sidecar the other
\* wrote, the other returns success while no sidecar exists at the path.
ConcurrentCreatorsRace ==
    \A p, q \in Procs :
        LostSidecar(p, q)
        => /\ MetadataPath(call[q].path) \notin DOMAIN fs
           /\ MetadataPath(call[p].path) = MetadataPath(call[q].path)
           /\ InLog(call[p], "parent_check_ok") /\ InLog(call[q], "parent_check_ok")
           /\ InLog(call[p], "meta_write_ok") /\ InLog(call[q], "meta_write_ok")
           /\ InLog(call[p], "data_write_fail") /\ InLog(call[p], "delete_ok")

\* the race has happened: a successful create without its sidecar
ConcurrentCreatorsRaceWitness ==
    \E p, q \in Procs :
        /\ LostSidecar(p, q)
        /\ Finished(p, "create")
        /\ call[p].result.err.kind = "WriteDataError"
        /\ MetadataPath(call[q].path) \notin DOMAIN fs

-----------------------------------------------------------------------------
\* the layout of the claim: every id but the last is a directory "<id>.data"
\* and the last id is the base name of the sidecar and of the data
LayoutBase(root, ids) ==
    root \o [i \in 1..(Len(ids) - 1) |-> ids[i] \o DotData]

LayoutMetadataPath(root, ids) ==
    Append(LayoutBase(root, ids), ids[Len(ids)] \o MetaJsonSuffix)

LayoutDataPath(root, ids, ext) ==
    Append(LayoutBase(root, ids),
           ids[Len(ids)] \o DotData \o (IF ext = <<>> THEN <<>> ELSE <<".">> \o ext))

\* C10: on-disk layout. For a path [i1..in] under R the sidecar is
\* R/i1.data/.../i(n-1).data/in.meta.json and the data are at
\* R/i1.data/.../i(n-1).data/in.data.<ext>, in.data for an empty extension;
\* the empty path resolves to R.
OnDiskLayout ==
    \A p \in Procs :
        call[p].op # "none"
        => LET rp == call[p].path
               ids == ResolveComponents(rp)
           IN IF ids = <<>>
              THEN Resolve(rp) = rp.root
              ELSE /\ MetadataPath(rp) = LayoutMetadataPath(rp.root, ids)
                   /\ call[p].meta # NoMeta
                        => DataPath(call[p].meta)
                            = LayoutDataPath(rp.root, ids, call[p].meta.metadata.data_extension)

-----------------------------------------------------------------------------
\* the suffix of the claim, ".meta.json"
SidecarSuffix == <<".", "m", "e", "t", "a", ".", "j", "s", "o", "n">>

\* the ids of a listing: what is left of the names that are an id followed
\* by the suffix
IdsOfNames(names) ==
    {id \in UNION {{SubSeq(n, 1, k) : k \in 0..Len(n)} : n \in names} :
        id \o SidecarSuffix \in names}

SeqRange(r) == {r[i] : i \in 1..Len(r)}

-----------------------------------------------------------------------------
\* C12: push rejects empty ids. push of an empty id is rejected and leaves
\* the path as it was, push of a non-empty id appends it as the last id, and
\* no path a caller can hold contains an empty id.
PushRejectsEmptyIds ==
    /\ (call[1].op = "push" /\ call[1].arg[1].kind = "Ressource")
       => IF call[1].arg[1].id = <<>>
          THEN call[1].path = call[1].before
          ELSE call[1].path.path = Append(call[1].before.path, call[1].arg[1])
    /\ \A i \in 1..Len(ResolveComponents(Held)) : ResolveComponents(Held)[i] # <<>>

-----------------------------------------------------------------------------
AllButLast(seq) == SubSeq(seq, 1, Len(seq) - 1)

-----------------------------------------------------------------------------
\* C15: container alignment. The directory that create(P, Folder) makes, the
\* data path of the Folder, is the directory that directly contains the
\* sidecar and the data of every child P + [c]; it is what P resolves to as
\* a container, and the sidecar of the Folder lies next to it under the
\* name of the last id.
ContainerAlignment ==
    \A p \in Procs :
        (/\ call[p].op = "create"
         /\ call[p].type = "Folder"
         /\ FlatNonEmpty(call[p].path)
         /\ call[p].meta # NoMeta)
        => LET P == call[p].path
               made == DataPath(call[p].meta)
           IN /\ \A c \in Ids, T \in Types :
                    LET child == Push(P, CompRessource(c))
                    IN /\ PathParent(MetadataPath(child)) = made
                       /\ PathParent(DataPath(MetaRessourceNew(child, T, 0).meta)) = made
              /\ Resolve(P) = made
              /\ MetadataPath(P) = LayoutMetadataPath(P.root, ResolveComponents(P))

-----------------------------------------------------------------------------
\* C16: a metadata-write failure is terminal. When the write of the sidecar
\* fails, create returns WriteMetadataIO at once: it makes no data write and
\* no deletion, every file but the sidecar is as it was before the call, and
\* the sidecar is as it was or is left half-written.
MetadataWriteFailureTerminal ==
    \A p \in Procs :
        (call[p].op = "create" /\ InLog(call[p], "meta_write_fail"))
        => LET c == call[p]
               mp == MetadataPath(c.path)
           IN /\ pc[p] = "done"
              /\ LastLog(c) = "meta_write_fail"
              /\ ~c.result.ok
              /\ c.result.err.kind = "WriteMetadataIO"
              /\ c.result.err.ressource_path = c.path
              /\ \A i \in 1..Len(c.log) : c.log[i] \notin DataEntries \cup DeleteEntries
              /\ DOMAIN fs \ {mp} = DOMAIN c.pre \ {mp}
              /\ \A q \in DOMAIN fs \ {mp} : fs[q] = c.pre[q]
              /\ \/ mp \in DOMAIN fs /\ fs[mp] = FileEntry(<<>>)
                 \/ mp \in DOMAIN fs /\ mp \in DOMAIN c.pre /\ fs[mp] = c.pre[mp]
                 \/ mp \notin DOMAIN fs /\ mp \notin DOMAIN c.pre

\* a create has returned WriteMetadataIO and left a half-written sidecar
MetadataWriteFailureWitness ==
    \E p \in Procs :
        /\ Finished(p, "create")
        /\ call[p].result.err.kind = "WriteMetadataIO"
        /\ LastLog(call[p]) = "meta_write_fail"
        /\ IsFile(fs, MetadataPath(call[p].path))
        /\ IsFile(call[p].pre, MetadataPath(call[p].path))
        /\ fs[MetadataPath(call[p].path)] = FileEntry(<<>>)
        /\ call[p].pre[MetadataPath(call[p].path)] # FileEntry(<<>>)

-----------------------------------------------------------------------------
\* the data path of the claim: the resolved path, ".data", and "." with the
\* extension when there is one
DataPathWith(rp, ext) ==
    LET r == Resolve(rp)
    IN [r EXCEPT ![Len(r)] =
            @ \o <<".", "d", "a", "t", "a">> \o (IF ext = <<>> THEN <<>> ELSE <<".">> \o ext)]

-----------------------------------------------------------------------------
LastComponent(rp) == rp.path[Len(rp.path)]

-----------------------------------------------------------------------------
-----------------------------------------------------------------------------
\* C20: load is read-only and uncached. A load, whether it succeeds or
\* fails, leaves every file as it was; what it returns is what is on disk
\* when it is made: the fields of the sidecar and the content of the data
\* file as they are then, MetadataIO when no sidecar is there, and after a
\* create of the path has succeeded, the descriptor that create wrote.
LoadReadOnlyUncached ==
    \A p \in Procs :
        /\ call[p].op = "load" => fs = call[p].pre
        /\ (Finished(p, "load") /\ call[p].result.ok)
           => LET c == call[p]
                  mp == MetadataPath(c.path)
                  m == c.result.meta.metadata
              IN /\ IsFile(fs, mp)
                 /\ m.type_id = JsonField(fs[mp].content, KeyTypeId)
                 /\ m.data_extension = JsonField(fs[mp].content, KeyDataExtension)
                 /\ m.id = JsonField(fs[mp].content, KeyId)
                 /\ TimeToString(m.time) = JsonField(fs[mp].content, KeyTime)
                 /\ c.type = "Text"
                      => /\ IsFile(fs, DataPathWith(c.path, m.data_extension))
                         /\ c.result.data.text
                              = fs[DataPathWith(c.path, m.data_extension)].content
        /\ (Finished(p, "load") /\ ~IsFile(fs, MetadataPath(call[p].path)))
           => ~call[p].result.ok /\ call[p].result.err.kind = "MetadataIO"
        /\ (/\ Finished(p, "load")
            /\ call[p].result.ok
            /\ last.op = "create"
            /\ last.result.ok
            /\ SamePath(call[p].path, last.path))
           => /\ call[p].result.meta.metadata = last.meta.metadata
              /\ call[p].result.data = last.data

\* a load returned the descriptor and the text that the create before it
\* put on disk
LoadReflectsCreateWitness ==
    \E p \in Procs :
        /\ Finished(p, "load")
        /\ call[p].result.ok
        /\ fs = call[p].pre
        /\ last.op = "create"
        /\ last.result.ok
        /\ SamePath(call[p].path, last.path)
        /\ call[p].result.meta.metadata.time = last.meta.metadata.time
        /\ call[p].result.meta.metadata.time >= 1
        /\ call[p].result.data = TextData(<<"y", "o">>)

-----------------------------------------------------------------------------
\* the data path of the Folder at [a]
FolderDataPathA == AddExtension(Resolve(PathA), DataExt)

\* the path a finished read or load took for the folder
ReadTarget == IF call[1].op \in {"read", "probe"} THEN ListedDir ELSE FolderDataPathA

\* the error of the read itself: the result of a direct read, the cause
\* under invalid-data of a load
ReadErrorIs(kind) ==
    IF call[1].op \in {"read", "probe"}
    THEN ~call[1].result.ok /\ call[1].result.err.kind = kind
    ELSE /\ ~call[1].result.ok
         /\ call[1].result.err.kind = "InvalidData"
         /\ call[1].result.err.ressource_path = PathA
         /\ Len(call[1].result.err.causes) = 1
         /\ call[1].result.err.causes[1].kind = kind
         /\ call[1].result.err.causes[1].path = FolderDataPathA

\* a read or load whose sidecar, if it needs one, is in order, that no
\* injected I/O failure hit, and whose folder path holds something that is
\* not a directory
ReadOfNonDirectory ==
    /\ call[1].op \in {"read", "probe", "load", "load_lib"}
    /\ call[1].fault = "none"
    /\ call[1].op \in {"load", "load_lib"} => RessourceLoadMeta(fs, PathA, "Folder", FALSE).ok
    /\ ReadTarget \in DOMAIN fs
    /\ ~IsDir(fs, ReadTarget)

-----------------------------------------------------------------------------
\* C22: Folder Resource write creates exactly one directory, not
\* recursively. A write that succeeds adds the target directory and nothing
\* else, under a parent that was a directory; a write fails, creating
\* nothing, when the target already exists or when its own parent directory
\* is missing, and no write creates an intermediate directory.
FolderWriteCreatesOneDirectory ==
    call[1].op = "write"
    => LET pre == call[1].pre
           t == call[1].target
       IN /\ call[1].result.ok
             => /\ t \notin DOMAIN pre
                /\ IsDir(pre, PathParent(t))
                /\ DOMAIN fs = DOMAIN pre \cup {t}
                /\ IsDir(fs, t)
                /\ \A q \in DOMAIN pre : fs[q] = pre[q]
          /\ ~call[1].result.ok
             => fs = pre /\ call[1].result.err.kind = "CreatingFolder"
          /\ (t \in DOMAIN pre \/ ~IsDir(pre, PathParent(t))) => ~call[1].result.ok
          /\ \A q \in DOMAIN fs \ DOMAIN pre : q = t

\* with no failure injected, a write to w/x/y failed and made nothing where
\* w was there and w/x was not, after a write had made w itself
FolderWriteWitness ==
    /\ call[1].op = "write"
    /\ call[1].target = Append(Append(WrittenDir, <<"x">>), <<"y">>)
    /\ call[1].fault = "ok"
    /\ ~call[1].result.ok
    /\ IsDir(fs, WrittenDir)
    /\ Append(WrittenDir, <<"x">>) \notin DOMAIN fs
    /\ fs = (WrittenDir :> DirEntry) @@ RootOnly

-----------------------------------------------------------------------------
\* C23: a failed create never damages an existing resource. When a create
\* at P returns an error and, before the call, P loaded as a resource of
\* some type, the sidecar of P and its data are as they were before the
\* call, and P still loads as that type.
FailedCreateKeepsExisting ==
    \A p \in Procs :
        \A T0 \in Types :
            (/\ Finished(p, "create")
             /\ ~call[p].result.ok
             /\ LoadsAs(call[p].pre, call[p].path, T0))
            => LET pre == call[p].pre
                   mp == MetadataPath(call[p].path)
                   dp == DataPath(RessourceLoadMeta(pre, call[p].path, T0, FALSE).meta)
               IN /\ mp \in DOMAIN fs
                  /\ fs[mp] = pre[mp]
                  /\ dp \in DOMAIN fs
                  /\ fs[dp] = pre[dp]
                  /\ LoadsAs(fs, call[p].path, T0)

-----------------------------------------------------------------------------
\* the terminal ids of the resources persisted directly under rp in f
ChildrenOf(f, rp) ==
    {c \in Ids : \E T \in Types : LoadsAs(f, Push(rp, CompRessource(c)), T)}

\* C25: creation and enumeration agree. After a successful create, a load
\* of a path P as a Folder that meets no I/O error returns as its child ids
\* exactly the terminal ids of the resources persisted directly under P.
CreationEnumerationAgree ==
    \A p \in Procs :
        (/\ Finished(p, "load")
         /\ call[p].type = "Folder"
         /\ call[p].result.ok
         /\ last.op = "create"
         /\ last.result.ok)
        => SeqRange(call[p].result.data.ressources) = ChildrenOf(fs, call[p].path)

====
